---- MODULE Spec2Model ----
(***************************************************************************)
(* Noveily: the IndexedDB persistence layer (utils/db.ts), the React views *)
(* that call it (App, Library, Uploader, Editor, CoverEditor, Reader) and  *)
(* the AI cover search (services/geminiService.ts searchComicCovers).      *)
(*                                                                         *)
(* Spec       : the stores, the transactions that run on them one request  *)
(*              at a time, and the UI handlers that issue them.            *)
(* DbSpec     : the functions of utils/db.ts called on a stored library.   *)
(* SearchSpec : one call of searchComicCovers on a bounded library.        *)
(***************************************************************************)
EXTENDS Integers, Sequences, FiniteSets, TLC

----------------------------------------------------------------------------
(* Bounds *)

\* comics ever stored in one behaviour (each takes a fresh comic id)
MaxUploads == 2
\* files chosen in the Uploader for one comic (Spec)
MaxFiles == 2
\* pages of a comic in the library the database starts with (DbSpec)
MaxPages == 3
\* calls of utils/db.ts made in one behaviour of DbSpec
MaxCalls == 2
\* database calls the user may have waiting at once
MaxQueue == 2
\* comics handed to one call of searchComicCovers
MaxSearch == 3

\* analysis requests of the Reader that wait for their response at once
MaxRequests == 2

\* messages of the chat history of the Reader
MaxChat == 3

\* calls of Library.handleAiSearch that have not returned
MaxAiSearches == 2

----------------------------------------------------------------------------
(* Values *)

\* Strings are sequences of one-character strings, so that trim(),
\* toLowerCase(), toUpperCase() and includes() are computed, not assumed.
Blank == <<" ">>
Titles == { Blank, <<"A", " ">> }

IsSpace(c) == c = " "

RECURSIVE TrimLeft(_)
TrimLeft(s) ==
  IF s # <<>> /\ IsSpace(Head(s)) THEN TrimLeft(Tail(s)) ELSE s

RECURSIVE TrimRight(_)
TrimRight(s) ==
  IF s # <<>> /\ IsSpace(s[Len(s)]) THEN TrimRight(SubSeq(s, 1, Len(s) - 1)) ELSE s

\* String.prototype.trim
Trim(s) == TrimRight(TrimLeft(s))

LowerChar(c) ==
  CASE c = "A" -> "a" [] c = "B" -> "b" [] c = "Y" -> "y" [] c = "E" -> "e"
    [] c = "S" -> "s" [] c = "N" -> "n" [] c = "O" -> "o" [] OTHER -> c

UpperChar(c) ==
  CASE c = "a" -> "A" [] c = "b" -> "B" [] c = "y" -> "Y" [] c = "e" -> "E"
    [] c = "s" -> "S" [] c = "n" -> "N" [] c = "o" -> "O" [] OTHER -> c

\* String.prototype.toLowerCase / toUpperCase
ToLowerCase(s) == [i \in 1..Len(s) |-> LowerChar(s[i])]
ToUpperCase(s) == [i \in 1..Len(s) |-> UpperChar(s[i])]

\* String.prototype.includes
Includes(s, q) ==
  \E i \in 0..(Len(s) - Len(q)) : SubSeq(s, i + 1, i + Len(q)) = q

Range(s) == { s[i] : i \in 1..Len(s) }

\* the blob a cropped cover is saved as (CoverEditor canvas.toBlob)
CroppedBlob == <<"crop", 0>>
\* the separate cover file of the Uploader
CoverFileBlob == <<"cover", 0>>
\* the i-th file of the Uploader's file list
FileBlob(i) == <<"file", i>>
NoBlob == <<"null", 0>>

\* uuidv4() for a comic: a fresh id, here the number of the upload
ComicIds == 1..MaxUploads
\* uuidv4() for a page: fresh; only the order among the ids of one comic
\* can be seen by the code (index order), so an id is <<comic, k>>
PageIds == ComicIds \X (1..MaxPages)
NoPageId == <<0, 0>>

\* The orders in which the uuids of n pages can compare: as the files
\* are listed, or in reverse.
UuidOrders(n) == { [i \in 1..n |-> i], [i \in 1..n |-> n + 1 - i] }

\* the numeric rank of a primary key (IndexedDB compares keys)
KeyRank(pid) == pid[1] * (MaxFiles + MaxPages + 1) + pid[2]

----------------------------------------------------------------------------
(* Array.prototype.sort with a numeric comparator: stable, ascending by    *)
(* key. s is a sequence of records with an integer field "key".            *)

RECURSIVE SortByKey(_)
SortByKey(s) ==
  IF Len(s) <= 1 THEN s
  ELSE LET x == Head(s)
           rest == SortByKey(Tail(s))
           n == Cardinality({ i \in 1..Len(rest) : rest[i].key < x.key })
       IN SubSeq(rest, 1, n) \o <<x>> \o SubSeq(rest, n + 1, Len(rest))

Vals(s) == [i \in 1..Len(s) |-> s[i].val]

RECURSIVE SetToSeq(_)
SetToSeq(S) ==
  IF S = {} THEN <<>>
  ELSE LET x == CHOOSE y \in S : TRUE IN <<x>> \o SetToSeq(S \ {x})

----------------------------------------------------------------------------
(* The object stores: a store is a function from the keys present to the   *)
(* records (keyPath 'id').                                                 *)

StorePut(store, rec) ==
  [k \in DOMAIN store \cup {rec.id} |-> IF k = rec.id THEN rec ELSE store[k]]

StoreDelete(store, key) ==
  [k \in DOMAIN store \ {key} |-> store[k]]

\* IDBIndex.getAll(comicId) on the 'comicId' index of the page store: the
\* records with that index key, in primary-key order
IndexGetAll(ps, comicId) ==
  LET hit == SetToSeq({ ps[k] : k \in { j \in DOMAIN ps : ps[j].comicId = comicId } })
  IN Vals(SortByKey([i \in 1..Len(hit) |-> [key |-> KeyRank(hit[i].id), val |-> hit[i]]]))

\* getAllComics: store.getAll() sorted by createdAt, newest first
SortedComics(cs) ==
  LET recs == SetToSeq({ cs[k] : k \in DOMAIN cs })
      all == Vals(SortByKey([i \in 1..Len(recs) |-> [key |-> recs[i].id, val |-> recs[i]]]))
  IN Vals(SortByKey([i \in 1..Len(all) |-> [key |-> 0 - all[i].createdAt, val |-> all[i]]]))

\* variant: the pages as index.getAll hands them over, not sorted
UnsortedPages(ps, comicId) ==
  LET all == IndexGetAll(ps, comicId)
  IN [i \in 1..Len(all) |->
        [id |-> all[i].id, blob |-> all[i].blob, order |-> all[i].order]]

\* getComicPages: index.getAll(comicId) sorted by order, mapped to
\* {id, blob, order}
LoadedPages(ps, comicId) ==
  LET all == IndexGetAll(ps, comicId)
      sorted == Vals(SortByKey([i \in 1..Len(all) |-> [key |-> all[i].order, val |-> all[i]]]))
  IN [i \in 1..Len(sorted) |->
        [id |-> sorted[i].id, blob |-> sorted[i].blob, order |-> sorted[i].order]]

----------------------------------------------------------------------------
(* State *)

VARIABLES
  comics,            \* object store 'comics' (committed)
  pages,             \* object store 'pages' (committed)
  clock,             \* Date.now(), advanced by every upload
  tx,                \* the readwrite transaction that is running, or idle
  txq,               \* database calls waiting for their transaction, in creation order
  view,              \* App.view
  activeComic,       \* App.activeComic: <<>> (null) or <<comic>>
  libComics,         \* Library.comics
  loading,           \* loading flag of the mounted view (Library, Editor, Reader)
  viewPages,         \* Editor.pages / Reader.pages of the mounted view
  currentPageIndex,  \* Reader.currentPageIndex
  apiCalls,          \* calls of utils/db.ts made so far (DbSpec)
  search,            \* one call of searchComicCovers (SearchSpec)
  reader,            \* the AI chat of the Reader and what it was closed at (ReaderSpec)
  aiSearch           \* the search field of the Library and its searches (LibrarySpec)

storeVars == <<comics, pages, clock, tx, txq>>
uiVars == <<view, activeComic, libComics, loading, viewPages, currentPageIndex>>
vars == <<comics, pages, clock, tx, txq, view, activeComic, libComics, loading,
          viewPages, currentPageIndex, apiCalls, search, reader, aiSearch>>

\* a call of a function of utils/db.ts: its arguments, and k, the handler
\* that awaits it; alive is FALSE once the component that issued it has
\* unmounted (its setState calls are then ignored)
Call(op, comicId, pageId, num, title, blob, plan, k) ==
  [op |-> op, comicId |-> comicId, pageId |-> pageId, num |-> num, title |-> title,
   blob |-> blob, plan |-> plan, k |-> k, alive |-> TRUE]

NoCall == [op |-> "none", comicId |-> 0, pageId |-> NoPageId, num |-> 0, title |-> <<>>,
           blob |-> NoBlob, plan |-> <<>>, k |-> "none", alive |-> FALSE]

IdleTx == [pc |-> "idle", call |-> NoCall, wc |-> <<>>, wp |-> <<>>,
           putComic |-> <<>>, putPages |-> <<>>, cursor |-> <<>>, settled |-> FALSE,
           status |-> "none"]

WriteOps == {"saveComic", "deleteComic", "deleteComicPage", "updateComicProgress",
             "updateComicCover", "updateComicTitle"}
ReadOps == {"getAllComics", "getComicPages"}

----------------------------------------------------------------------------
(* utils/db.ts: what each function asks of its transaction *)

\* variant: the comic in one transaction, the pages in a second one
SaveComicTwoTransactions(comic, pgs) ==
  << [putComic |-> <<comic>>, putPages |-> <<>>],
     [putComic |-> <<>>, putPages |-> pgs] >>

\* saveComic: the transactions it opens and what it puts in each. One
\* transaction over both stores: put(comic), then put(page) for every page.
SaveComicTransactions(comic, pgs) ==
  << [putComic |-> <<comic>>, putPages |-> pgs] >>

\* deleteComicPage, getAllPagesReq.onsuccess: remainingPages.sort by order
SortRemaining(remainingPages) ==
  Vals(SortByKey([i \in 1..Len(remainingPages) |->
                    [key |-> remainingPages[i].order, val |-> remainingPages[i]]]))

\* variant: no page is renumbered
KeptOrder(page, index) == page.order

\* deleteComicPage: remainingPages.forEach((page, index) => ...), the
\* order a page gets at (zero-based) index
NewOrder(page, index) == index

\* deleteComicPage: the page store after the forEach over the sorted pages
\* (a page is put only if its order differs from its index)
Renumbered(wp, sorted) ==
  [k \in DOMAIN wp |->
     IF \E i \in 1..Len(sorted) :
          sorted[i].id = k /\ sorted[i].order # NewOrder(sorted[i], i - 1)
     THEN LET i == CHOOSE j \in 1..Len(sorted) : sorted[j].id = k
          IN [sorted[i] EXCEPT !.order = NewOrder(sorted[i], i - 1)]
     ELSE wp[k]]

Max(a, b) == IF a >= b THEN a ELSE b

\* variant: totalPages is set, lastReadPage is left as it is
UnclampedComic(comic, n) == [comic EXCEPT !.totalPages = n]

\* variant: lastReadPage is clamped, totalPages is left as it is
StaleTotalComic(comic, n) ==
  IF comic.lastReadPage >= n THEN [comic EXCEPT !.lastReadPage = Max(0, n - 1)]
  ELSE comic

\* variant: lastReadPage is clamped to the number of pages that remain
ClampedToCount(comic, n) ==
  LET c == [comic EXCEPT !.totalPages = n]
  IN IF c.lastReadPage > c.totalPages
     THEN [c EXCEPT !.lastReadPage = c.totalPages]
     ELSE c

\* deleteComicPage, getComicReq.onsuccess: the comic record that is put
ClampedComic(comic, n) ==
  LET c == [comic EXCEPT !.totalPages = n]
  IN IF c.lastReadPage >= c.totalPages
     THEN [c EXCEPT !.lastReadPage = Max(0, c.totalPages - 1)]
     ELSE c

\* variant: the comic without pages is left in its store
ComicsLeft(wc, comicId) == wc

\* deleteComicPage, getAllPagesReq.onsuccess: the comic store when no page
\* remains
EmptiedComics(wc, comicId) == StoreDelete(wc, comicId)

\* deleteComic: the comic store after comicStore.delete(comicId)
ComicsAfterDelete(wc, comicId) == StoreDelete(wc, comicId)

\* variant: the cursor is not continued after its first record
FirstCursorKey(wp, comicId) ==
  LET all == IndexGetAll(wp, comicId)
  IN IF all = <<>> THEN <<>> ELSE << all[1].id >>

\* deleteComic: the keys the cursor over IDBKeyRange.only(comicId) visits
CursorKeys(wp, comicId) ==
  LET all == IndexGetAll(wp, comicId)
  IN [i \in 1..Len(all) |-> all[i].id]

\* updateComicProgress / updateComicCover / updateComicTitle: the record
\* that is put when the comic is found
UpdatedComic(call, comic) ==
  CASE call.op = "updateComicProgress" -> [comic EXCEPT !.lastReadPage = call.num]
    [] call.op = "updateComicCover" -> [comic EXCEPT !.coverImageBlob = call.blob]
    [] call.op = "updateComicTitle" -> [comic EXCEPT !.title = call.title]

\* variant: every update rejects when the comic is not found
AlwaysRejects(op) == "err"

\* what the promise settles with when the comic is not found
NotFoundStatus(op) == IF op = "updateComicProgress" THEN "ok" ELSE "err"

----------------------------------------------------------------------------
(* The views. A handler is computed on a record w of the UI state, the     *)
(* queue of calls (q) and whether the mounted component unmounted (kill).  *)

World(q) ==
  [view |-> view, activeComic |-> activeComic, libComics |-> libComics,
   loading |-> loading, viewPages |-> viewPages,
   currentPageIndex |-> currentPageIndex, q |-> q, kill |-> FALSE]

KillAll(q) == [i \in 1..Len(q) |-> [q[i] EXCEPT !.alive = FALSE]]

Inherit(call, parent) == [call EXCEPT !.alive = parent.alive]

GetAllComicsCall == Call("getAllComics", 0, NoPageId, 0, <<>>, NoBlob, <<>>, "loadComics")
GetComicPagesCall(comicId, k) == Call("getComicPages", comicId, NoPageId, 0, <<>>, NoBlob, <<>>, k)

\* variant: the cleanup saves the first page
SaveFirstPage(comicId, index) ==
  Call("updateComicProgress", comicId, NoPageId, 0, <<>>, NoBlob, <<>>, "none")

\* Reader, the cleanup of the 'save progress' effect
SaveProgressCall(comicId, index) ==
  Call("updateComicProgress", comicId, NoPageId, index, <<>>, NoBlob, <<>>, "none")

\* useState(comic.lastReadPage || 0)
InitialPageIndex(comic) == comic.lastReadPage

\* a component mounts: its initial state and its mount effects
Mount(w, v, active) ==
  LET base == [w EXCEPT !.view = v, !.activeComic = active, !.libComics = <<>>,
                        !.viewPages = <<>>, !.currentPageIndex = 0, !.loading = FALSE]
  IN CASE v = "LIBRARY" ->
            [base EXCEPT !.loading = TRUE, !.q = Append(w.q, GetAllComicsCall)]
       [] v = "EDIT" ->
            [base EXCEPT !.loading = TRUE,
                         !.q = Append(w.q, GetComicPagesCall(active[1].id, "edLoad"))]
       [] v = "READER" ->
            [base EXCEPT !.loading = TRUE,
                         !.currentPageIndex = InitialPageIndex(active[1]),
                         !.q = Append(w.q, GetComicPagesCall(active[1].id, "rdLoad"))]
       [] OTHER -> base

\* App: setActiveComic(active); setView(v). The mounted component unmounts
\* (the Reader's cleanup saves the progress) and the one of v mounts.
ChangeView(w, v, active) ==
  IF w.view = v THEN [w EXCEPT !.activeComic = active]
  ELSE LET q1 == KillAll(w.q)
           q2 == IF w.view = "READER" /\ w.activeComic # <<>>
                 THEN Append(q1, SaveProgressCall(w.activeComic[1].id, w.currentPageIndex))
                 ELSE q1
       IN Mount([w EXCEPT !.q = q2, !.kill = TRUE], v, active)

\* App.handleCloseView
HandleCloseView(w) == ChangeView(w, "LIBRARY", <<>>)

\* App.handleUploadComplete
HandleUploadComplete(w) == ChangeView(w, "LIBRARY", w.activeComic)

\* Library.loadComics up to its await
LoadComics(w, parent) ==
  [w EXCEPT !.loading = IF parent.alive THEN TRUE ELSE @,
            !.q = Append(@, Inherit(GetAllComicsCall, parent))]

\* Editor.handleDeletePage after `await getComicPages(comic.id)`
AfterRemainingPages(w, call, remainingPages) ==
  IF Len(remainingPages) = 0 THEN HandleCloseView(w)
  ELSE IF call.alive THEN [w EXCEPT !.viewPages = remainingPages] ELSE w

\* The handler awaiting `call` resumes: status is "ok" (resolved) or "err"
\* (rejected), resC / resP what getAllComics / getComicPages resolved with.
AfterCall(w, call, status, resC, resP) ==
  CASE call.k = "loadComics" ->
         IF ~call.alive THEN w
         ELSE [w EXCEPT !.libComics = IF status = "ok" THEN resC ELSE @,
                        !.loading = FALSE]
    [] call.k \in {"confirmDelete", "saveRename"} ->
         IF status = "ok" THEN LoadComics(w, call) ELSE w
    [] call.k = "submit" ->
         IF status = "ok" THEN HandleUploadComplete(w)
         ELSE IF call.alive THEN [w EXCEPT !.loading = FALSE] ELSE w
    [] call.k \in {"edLoad", "rdLoad"} ->
         IF ~call.alive THEN w
         ELSE [w EXCEPT !.viewPages = IF status = "ok" THEN resP ELSE @,
                        !.loading = FALSE]
    [] call.k = "edDeleted" ->
         IF status = "ok"
         THEN [w EXCEPT !.q = Append(@, Inherit(GetComicPagesCall(call.comicId, "edAfterDelete"), call))]
         ELSE w
    [] call.k = "edAfterDelete" ->
         IF status = "ok" THEN AfterRemainingPages(w, call, resP) ELSE w
    [] call.k = "coverSaved" ->
         IF status = "ok" THEN HandleCloseView(w) ELSE w
    [] OTHER -> w

KillTx(t, kill) ==
  IF kill /\ t.pc # "idle" THEN [t EXCEPT !.call.alive = FALSE] ELSE t

\* the UI state and the queue become those of w; the running transaction
\* is t
Apply(w, t) ==
  /\ view' = w.view
  /\ activeComic' = w.activeComic
  /\ libComics' = w.libComics
  /\ loading' = w.loading
  /\ viewPages' = w.viewPages
  /\ currentPageIndex' = w.currentPageIndex
  /\ txq' = w.q
  /\ tx' = KillTx(t, w.kill)

\* A user event is taken between transactions: the requests of a running
\* transaction change only its own view of the stores, and the event only
\* the views and the tail of the queue, so the two commute. At most
\* MaxQueue calls wait at once.
Room(n) == tx.pc = "idle" /\ Len(txq) + n <= MaxQueue

----------------------------------------------------------------------------
(* User actions *)

\* Library: the buttons that open the Uploader
OpenUploader ==
  /\ view = "LIBRARY"
  /\ libComics # <<>> \/ ~loading
  /\ Room(0)
  /\ Apply(ChangeView(World(txq), "UPLOAD", activeComic), tx)
  /\ UNCHANGED <<comics, pages, clock, apiCalls, search, reader, aiSearch>>

\* variant: the pages are numbered from one
OneBasedPages(comicId, n, uuids) ==
  [i \in 1..n |-> [id |-> <<comicId, uuids[i]>>, comicId |-> comicId,
                   blob |-> FileBlob(i), order |-> i]]

\* Uploader.handleSubmit: the pages and the comic handed to saveComic (a
\* saveComic call carries, as blob, the cover file chosen, if any)
SubmittedPages(comicId, n, uuids) ==
  [i \in 1..n |-> [id |-> <<comicId, uuids[i]>>, comicId |-> comicId,
                   blob |-> FileBlob(i), order |-> i - 1]]

SubmittedComic(comicId, title, n, hasCover, now) ==
  [id |-> comicId, title |-> title,
   coverImageBlob |-> IF hasCover THEN CoverFileBlob ELSE FileBlob(1),
   createdAt |-> now, totalPages |-> n, lastReadPage |-> 0]

HandleSubmit ==
  /\ view = "UPLOAD"
  /\ ~loading
  /\ clock < MaxUploads
  /\ Room(1)
  /\ \E title \in Titles, n \in 0..MaxFiles, hasCover \in BOOLEAN :
       /\ ~(Trim(title) = <<>> \/ n = 0)
       /\ \E uuids \in UuidOrders(n) :
            LET comicId == clock + 1
                comic == SubmittedComic(comicId, title, n, hasCover, clock + 1)
                pgs == SubmittedPages(comicId, n, uuids)
                coverFile == IF hasCover THEN CoverFileBlob ELSE NoBlob
                call == Call("saveComic", comicId, NoPageId, 0, <<>>, coverFile,
                             SaveComicTransactions(comic, pgs), "submit")
                w == World(Append(txq, call))
            IN Apply([w EXCEPT !.loading = TRUE], tx)
  /\ clock' = clock + 1
  /\ UNCHANGED <<comics, pages, apiCalls, search, reader, aiSearch>>

UploaderCancel ==
  /\ view = "UPLOAD"
  /\ Room(1)
  /\ Apply(HandleCloseView(World(txq)), tx)
  /\ UNCHANGED <<comics, pages, clock, apiCalls, search, reader, aiSearch>>

\* Library: a card of the grid is clicked (the grid shows when not loading)
OpenReader ==
  /\ view = "LIBRARY" /\ ~loading /\ Room(1)
  /\ \E i \in 1..Len(libComics) :
       Apply(ChangeView(World(txq), "READER", <<libComics[i]>>), tx)
  /\ UNCHANGED <<comics, pages, clock, apiCalls, search, reader, aiSearch>>

OpenEditor ==
  /\ view = "LIBRARY" /\ ~loading /\ Room(1)
  /\ \E i \in 1..Len(libComics) :
       Apply(ChangeView(World(txq), "EDIT", <<libComics[i]>>), tx)
  /\ UNCHANGED <<comics, pages, clock, apiCalls, search, reader, aiSearch>>

OpenCoverEditor ==
  /\ view = "LIBRARY" /\ ~loading /\ Room(0)
  /\ \E i \in 1..Len(libComics) :
       Apply(ChangeView(World(txq), "COVER_EDITOR", <<libComics[i]>>), tx)
  /\ UNCHANGED <<comics, pages, clock, apiCalls, search, reader, aiSearch>>

\* Library.handleConfirmDelete up to `await deleteComic(deletingComic.id)`
HandleConfirmDelete ==
  /\ view = "LIBRARY" /\ ~loading /\ Room(1)
  /\ \E i \in 1..Len(libComics) :
       LET call == Call("deleteComic", libComics[i].id, NoPageId, 0, <<>>, NoBlob,
                        <<>>, "confirmDelete")
       IN Apply(World(Append(txq, call)), tx)
  /\ UNCHANGED <<comics, pages, clock, apiCalls, search, reader, aiSearch>>

\* Library.handleSaveRename up to `await updateComicTitle(...)`
HandleSaveRename ==
  /\ view = "LIBRARY" /\ ~loading /\ Room(1)
  /\ \E i \in 1..Len(libComics), newTitle \in Titles :
       /\ Trim(newTitle) # <<>>
       /\ LET call == Call("updateComicTitle", libComics[i].id, NoPageId, 0,
                           Trim(newTitle), NoBlob, <<>>, "saveRename")
          IN Apply(World(Append(txq, call)), tx)
  /\ UNCHANGED <<comics, pages, clock, apiCalls, search, reader, aiSearch>>

\* Editor.handleDeletePage up to `await deleteComicPage(pageId, comic.id)`
HandleDeletePage ==
  /\ view = "EDIT" /\ ~loading /\ Room(1)
  /\ \E j \in 1..Len(viewPages) :
       LET call == Call("deleteComicPage", activeComic[1].id, viewPages[j].id, 0,
                        <<>>, NoBlob, <<>>, "edDeleted")
       IN Apply(World(Append(txq, call)), tx)
  /\ UNCHANGED <<comics, pages, clock, apiCalls, search, reader, aiSearch>>

\* Editor: the Done button
EditorClose ==
  /\ view = "EDIT" /\ Room(1)
  /\ Apply(HandleCloseView(World(txq)), tx)
  /\ UNCHANGED <<comics, pages, clock, apiCalls, search, reader, aiSearch>>

\* CoverEditor.handleSave up to `await updateComicCover(comic.id, blob)`
CoverHandleSave ==
  /\ view = "COVER_EDITOR" /\ Room(1)
  /\ LET call == Call("updateComicCover", activeComic[1].id, NoPageId, 0, <<>>,
                      CroppedBlob, <<>>, "coverSaved")
     IN Apply(World(Append(txq, call)), tx)
  /\ UNCHANGED <<comics, pages, clock, apiCalls, search, reader, aiSearch>>

CoverClose ==
  /\ view = "COVER_EDITOR" /\ Room(1)
  /\ Apply(HandleCloseView(World(txq)), tx)
  /\ UNCHANGED <<comics, pages, clock, apiCalls, search, reader, aiSearch>>

\* Reader: the IntersectionObserver reports another page; the 'save
\* progress' effect is cleaned up (with the index it closed over) and re-run
ReaderPageChange ==
  /\ view = "READER" /\ ~loading /\ Room(1)
  /\ \E index \in 0..(Len(viewPages) - 1) :
       /\ index # currentPageIndex
       /\ LET w == World(Append(txq, SaveProgressCall(activeComic[1].id, currentPageIndex)))
          IN Apply([w EXCEPT !.currentPageIndex = index], tx)
  /\ UNCHANGED <<comics, pages, clock, apiCalls, search, reader, aiSearch>>

\* Reader: the close button (rendered once the pages are loaded)
ReaderClose ==
  /\ view = "READER" /\ ~loading /\ Room(2)
  /\ Apply(HandleCloseView(World(txq)), tx)
  /\ UNCHANGED <<comics, pages, clock, apiCalls, search, reader, aiSearch>>

----------------------------------------------------------------------------
(* The database: calls get their transaction in creation order; a          *)
(* readwrite transaction runs its requests one at a time on its own view   *)
(* of the stores (wc, wp) and then commits, or aborts and leaves the       *)
(* stores as they were.                                                    *)

FirstPc(op) ==
  CASE op = "saveComic" -> "put"
    [] op \in {"deleteComic", "deleteComicPage"} -> "delete"
    [] OTHER -> "get"

\* db.transaction(..., 'readwrite') of the call at the head of the queue
TxBegin ==
  /\ tx.pc = "idle"
  /\ txq # <<>>
  /\ Head(txq).op \in WriteOps
  /\ LET c == Head(txq)
     IN tx' = [pc |-> FirstPc(c.op), call |-> c, wc |-> comics, wp |-> pages,
               putComic |-> IF c.op = "saveComic" THEN Head(c.plan).putComic ELSE <<>>,
               putPages |-> IF c.op = "saveComic" THEN Head(c.plan).putPages ELSE <<>>,
               cursor |-> <<>>, settled |-> FALSE, status |-> "none"]
  /\ txq' = Tail(txq)
  /\ UNCHANGED <<comics, pages, clock, apiCalls, search, reader, aiSearch>>
  /\ UNCHANGED uiVars

\* saveComic: the next put request of the transaction
SaveComicPut ==
  /\ tx.call.op = "saveComic" /\ tx.pc = "put"
  /\ LET t1 == IF tx.putComic # <<>>
               THEN [tx EXCEPT !.wc = StorePut(@, Head(tx.putComic)),
                               !.putComic = Tail(@)]
               ELSE IF tx.putPages # <<>>
               THEN [tx EXCEPT !.wp = StorePut(@, Head(tx.putPages)),
                               !.putPages = Tail(@)]
               ELSE tx
     IN tx' = IF t1.putComic = <<>> /\ t1.putPages = <<>>
              THEN [t1 EXCEPT !.pc = "commit"] ELSE t1
  /\ UNCHANGED <<comics, pages, clock, txq, apiCalls, search, reader, aiSearch>>
  /\ UNCHANGED uiVars

\* deleteComic: comicStore.delete, then the cursor over the comic's pages
DeleteComicStep ==
  /\ tx.call.op = "deleteComic"
  /\ \/ /\ tx.pc = "delete"
        /\ LET keys == CursorKeys(tx.wp, tx.call.comicId)
           IN tx' = [tx EXCEPT !.wc = ComicsAfterDelete(@, tx.call.comicId),
                               !.cursor = keys,
                               !.pc = IF keys = <<>> THEN "commit" ELSE "cursor"]
     \/ /\ tx.pc = "cursor"
        /\ tx' = [tx EXCEPT !.wp = StoreDelete(@, Head(tx.cursor)),
                            !.cursor = Tail(@),
                            !.pc = IF Tail(tx.cursor) = <<>> THEN "commit" ELSE "cursor"]
  /\ UNCHANGED <<comics, pages, clock, txq, apiCalls, search, reader, aiSearch>>
  /\ UNCHANGED uiVars

\* deleteComicPage: pageStore.delete(pageId); getAll(comicId).onsuccess;
\* getComicReq.onsuccess
DeleteComicPageStep ==
  /\ tx.call.op = "deleteComicPage"
  /\ \/ /\ tx.pc = "delete"
        /\ tx' = [tx EXCEPT !.wp = StoreDelete(@, tx.call.pageId), !.pc = "getAll"]
     \/ /\ tx.pc = "getAll"
        /\ LET remainingPages == IndexGetAll(tx.wp, tx.call.comicId)
               sorted == SortRemaining(remainingPages)
           IN tx' = IF Len(remainingPages) = 0
                    THEN [tx EXCEPT !.wc = EmptiedComics(@, tx.call.comicId),
                                    !.pc = "commit"]
                    ELSE [tx EXCEPT !.wp = Renumbered(@, sorted),
                                    !.cursor = sorted,
                                    !.pc = "getComic"]
     \/ /\ tx.pc = "getComic"
        /\ tx' = IF tx.call.comicId \in DOMAIN tx.wc
                 THEN [tx EXCEPT !.wc = StorePut(@, ClampedComic(tx.wc[tx.call.comicId],
                                                                  Len(tx.cursor))),
                                 !.cursor = <<>>,
                                 !.pc = "commit"]
                 ELSE [tx EXCEPT !.cursor = <<>>, !.pc = "commit"]
  /\ UNCHANGED <<comics, pages, clock, txq, apiCalls, search, reader, aiSearch>>
  /\ UNCHANGED uiVars

\* updateComicProgress / updateComicCover / updateComicTitle:
\* getRequest.onsuccess and the put; the promise settles here
UpdateComicStep ==
  /\ tx.call.op \in {"updateComicProgress", "updateComicCover", "updateComicTitle"}
  /\ tx.pc = "get"
  /\ LET found == tx.call.comicId \in DOMAIN tx.wc
         status == IF found THEN "ok" ELSE NotFoundStatus(tx.call.op)
         t1 == IF found
               THEN [tx EXCEPT !.wc = StorePut(@, UpdatedComic(tx.call, tx.wc[tx.call.comicId])),
                               !.settled = TRUE, !.status = status, !.pc = "commit"]
               ELSE [tx EXCEPT !.settled = TRUE, !.status = status, !.pc = "commit"]
     IN Apply(AfterCall(World(txq), tx.call, status, <<>>, <<>>), t1)
  /\ UNCHANGED <<comics, pages, clock, apiCalls, search, reader, aiSearch>>

\* the transaction completes: its writes reach the stores together
TxCommit ==
  /\ tx.pc = "commit"
  /\ comics' = tx.wc
  /\ pages' = tx.wp
  /\ IF Len(tx.call.plan) > 1
     THEN Apply(World(Append(txq, [tx.call EXCEPT !.plan = Tail(@)])), IdleTx)
     ELSE IF tx.settled
     THEN Apply(World(txq), IdleTx)
     ELSE Apply(AfterCall(World(txq), tx.call, "ok", <<>>, <<>>), IdleTx)
  /\ UNCHANGED <<clock, apiCalls, search, reader, aiSearch>>

\* a request fails or the commit fails: the transaction aborts, none of its
\* writes is kept, and a promise still pending is rejected
TxAbort ==
  /\ tx.pc # "idle"
  /\ IF tx.settled
     THEN Apply(World(txq), IdleTx)
     ELSE Apply(AfterCall(World(txq), tx.call, "err", <<>>, <<>>), IdleTx)
  /\ UNCHANGED <<comics, pages, clock, apiCalls, search, reader, aiSearch>>

\* getAllComics / getComicPages: a readonly transaction sees the stores as
\* the transactions before it left them
ReadStep ==
  /\ tx.pc = "idle"
  /\ txq # <<>>
  /\ Head(txq).op \in ReadOps
  /\ LET c == Head(txq)
     IN Apply(AfterCall(World(Tail(txq)), c, "ok", SortedComics(comics),
                        LoadedPages(pages, c.comicId)), tx)
  /\ UNCHANGED <<comics, pages, clock, apiCalls, search, reader, aiSearch>>

----------------------------------------------------------------------------

\* the Reader's AI chat before any Reader was mounted: useState(false),
\* useState([]); requests are the getAiPageAnalysis calls not yet settled,
\* closedAt the comic and page index at which the last Reader was closed,
\* and the number of database calls not yet finished at that moment
NoReader ==
  [showAiModal |-> FALSE, isAiAnalyzing |-> FALSE, chatHistory |-> <<>>,
   requests |-> <<>>, closedAt |-> <<>>, writeFailed |-> FALSE]

\* the search field of the Library as it mounts: useState(''),
\* useState(false); calls are the handleAiSearch calls that have not returned
NoAiSearch == [searchQuery |-> <<>>, isSearching |-> FALSE, calls |-> <<>>]

NoSearch == [pc |-> "none", comics |-> <<>>, query |-> <<>>, apiKey |-> FALSE,
             titleMatches |-> <<>>, task |-> <<>>, issued |-> <<>>, result |-> <<>>]

\* index.tsx renders App; Library mounts and loads an empty database
Init ==
  /\ comics = <<>>
  /\ pages = <<>>
  /\ clock = 0
  /\ tx = IdleTx
  /\ txq = <<GetAllComicsCall>>
  /\ view = "LIBRARY"
  /\ activeComic = <<>>
  /\ libComics = <<>>
  /\ loading = TRUE
  /\ viewPages = <<>>
  /\ currentPageIndex = 0
  /\ apiCalls = 0
  /\ search = NoSearch
  /\ reader = NoReader
  /\ aiSearch = NoAiSearch

Next ==
  \/ OpenUploader
  \/ HandleSubmit
  \/ UploaderCancel
  \/ OpenReader
  \/ OpenEditor
  \/ OpenCoverEditor
  \/ HandleConfirmDelete
  \/ HandleSaveRename
  \/ HandleDeletePage
  \/ EditorClose
  \/ CoverHandleSave
  \/ CoverClose
  \/ ReaderPageChange
  \/ ReaderClose
  \/ TxBegin
  \/ SaveComicPut
  \/ DeleteComicStep
  \/ DeleteComicPageStep
  \/ UpdateComicStep
  \/ TxCommit
  \/ TxAbort
  \/ ReadStep

Spec == Init /\ [][Next]_vars

----------------------------------------------------------------------------
(* DbSpec: utils/db.ts alone. The database holds a library as uploads and  *)
(* reading sessions leave it, and the functions are called with any        *)
(* arguments, also ones no view passes.                                    *)

\* a comic as Uploader.handleSubmit stores it, read up to page lastReadPage
UploadedComics(comicId) ==
  { [comic |-> [SubmittedComic(comicId, <<"A", " ">>, n, hasCover, comicId)
                  EXCEPT !.lastReadPage = lrp],
     pgs |-> SubmittedPages(comicId, n, uuids)] :
      <<n, hasCover, lrp, uuids>> \in
        { x \in (1..MaxPages) \X BOOLEAN \X (0..(MaxPages - 1)) \X
                UNION { UuidOrders(m) : m \in 1..MaxPages } :
            x[3] < x[1] /\ x[4] \in UuidOrders(x[1]) } }

RECURSIVE PutAll(_, _)
PutAll(store, recs) ==
  IF recs = <<>> THEN store ELSE PutAll(StorePut(store, Head(recs)), Tail(recs))

\* the libraries of the comics 1..k
RECURSIVE Libraries(_)
Libraries(k) ==
  IF k = 0 THEN { [comics |-> <<>>, pages |-> <<>>] }
  ELSE { [comics |-> StorePut(lib.comics, u.comic), pages |-> PutAll(lib.pages, u.pgs)] :
           lib \in Libraries(k - 1), u \in UploadedComics(k) }

ApiCalls ==
  { Call("deleteComic", c, NoPageId, 0, <<>>, NoBlob, <<>>, "none") : c \in ComicIds }
  \cup { Call("deleteComicPage", c, p, 0, <<>>, NoBlob, <<>>, "none") :
           c \in ComicIds, p \in PageIds }
  \cup { Call("updateComicProgress", c, NoPageId, i, <<>>, NoBlob, <<>>, "none") :
           c \in ComicIds, i \in 0..(MaxPages - 1) }
  \cup { Call("updateComicCover", c, NoPageId, 0, <<>>, CroppedBlob, <<>>, "none") :
           c \in ComicIds }
  \cup { Call("updateComicTitle", c, NoPageId, 0, Trim(t), NoBlob, <<>>, "none") :
           c \in ComicIds, t \in Titles \ {Blank} }

ApiCall ==
  /\ tx.pc = "idle" /\ txq = <<>>
  /\ apiCalls < MaxCalls
  /\ \E call \in ApiCalls : txq' = <<call>>
  /\ apiCalls' = apiCalls + 1
  /\ UNCHANGED <<comics, pages, clock, tx, search, reader, aiSearch>>
  /\ UNCHANGED uiVars

\* saveComic with a comic and pages as the Uploader builds them
ApiSaveComic ==
  /\ tx.pc = "idle" /\ txq = <<>>
  /\ apiCalls < MaxCalls
  /\ clock < MaxUploads
  /\ \E title \in Titles \ {Blank}, n \in 1..MaxPages, hasCover \in BOOLEAN :
       \E uuids \in UuidOrders(n) :
         LET comicId == clock + 1
             comic == SubmittedComic(comicId, title, n, hasCover, clock + 1)
             pgs == SubmittedPages(comicId, n, uuids)
             coverFile == IF hasCover THEN CoverFileBlob ELSE NoBlob
         IN txq' = << Call("saveComic", comicId, NoPageId, 0, <<>>, coverFile,
                           SaveComicTransactions(comic, pgs), "none") >>
  /\ clock' = clock + 1
  /\ apiCalls' = apiCalls + 1
  /\ UNCHANGED <<comics, pages, tx, search, reader, aiSearch>>
  /\ UNCHANGED uiVars

DbInit ==
  /\ \E k \in 0..MaxUploads : \E lib \in Libraries(k) :
       /\ comics = lib.comics
       /\ pages = lib.pages
       /\ clock = k
  /\ tx = IdleTx
  /\ txq = <<>>
  /\ view = "LIBRARY"
  /\ activeComic = <<>>
  /\ libComics = <<>>
  /\ loading = FALSE
  /\ viewPages = <<>>
  /\ currentPageIndex = 0
  /\ apiCalls = 0
  /\ search = NoSearch
  /\ reader = NoReader
  /\ aiSearch = NoAiSearch

DbNext ==
  \/ ApiCall
  \/ ApiSaveComic
  \/ TxBegin
  \/ SaveComicPut
  \/ DeleteComicStep
  \/ DeleteComicPageStep
  \/ UpdateComicStep
  \/ TxCommit
  \/ TxAbort

DbSpec == DbInit /\ [][DbNext]_vars

----------------------------------------------------------------------------
(* SearchSpec: one call of searchComicCovers(comics, query).               *)

SearchTitles == { <<"A">>, <<"a", "b">> }
SearchQueries == { <<"a">>, <<"B">>, <<"b", " ">> }

\* response.text of generateContent: a string, or undefined
NoText == [hasText |-> FALSE, text |-> <<>>]
Responses ==
  { NoText } \cup
  { [hasText |-> TRUE, text |-> t] :
      t \in { <<"Y", "E", "S">>, <<"y", "e", "s", " ">>, <<"N", "O">>, <<"Y", "E", "S", "!">> } }

\* the libraries getAllComics can hand over: comics with distinct ids
SearchLibraries ==
  UNION { { [i \in 1..n |-> [id |-> i, title |-> ts[i], hasCover |-> cs[i]]] :
              ts \in [1..n -> SearchTitles], cs \in [1..n -> BOOLEAN] } :
          n \in 0..MaxSearch }

\* variant: the titles are compared as they are written
CaseSensitiveTitleMatches(cs, query) ==
  LET Hit(comic) == Includes(comic.title, query)
  IN SelectSeq(cs, Hit)

\* comics.filter(comic => comic.title.toLowerCase().includes(lowerCaseQuery))
TitleMatches(cs, query) ==
  LET lowerCaseQuery == ToLowerCase(query)
      Hit(comic) == Includes(ToLowerCase(comic.title), lowerCaseQuery)
  IN SelectSeq(cs, Hit)

\* variant: every comic is searched via AI
AllComicsToSearchAi(cs, titleMatches) == cs

\* comics.filter(comic => !titleMatchIds.has(comic.id))
ComicsToSearchAi(cs, titleMatches) ==
  LET titleMatchIds == { titleMatches[i].id : i \in 1..Len(titleMatches) }
      Miss(comic) == comic.id \notin titleMatchIds
  IN SelectSeq(cs, Miss)

\* response.text?.trim().toUpperCase() === 'YES'
AnswersYes(response) ==
  response.hasText /\ ToUpperCase(Trim(response.text)) = <<"Y", "E", "S">>

\* the async callback of comicsToSearchAi.map up to its first await: a
\* comic without a cover returns null at once
StartedTask(comic) ==
  IF comic.hasCover
  THEN [comic |-> comic, st |-> "b64", out |-> "pending", resp |-> NoText, ret |-> <<>>]
  ELSE [comic |-> comic, st |-> "done", out |-> "skipped", resp |-> NoText, ret |-> <<>>]

\* variant: no catch block, the rejection reaches Promise.all
UncaughtRequestError(s, i) ==
  [s EXCEPT !.pc = "rejected", !.task[i].st = "done", !.task[i].out = "failed"]

\* variant: the catch block issues the request again
RetriedRequest(s, i) ==
  [s EXCEPT !.task[i].st = "request", !.issued[s.task[i].comic.id] = @ + 1]

\* the catch block: the error is logged and the callback returns null
OnRequestError(s, i) ==
  [s EXCEPT !.task[i].st = "done", !.task[i].out = "failed"]

\* the callback after `await ai.models.generateContent(...)`
OnResponse(s, i, response) ==
  [s EXCEPT !.task[i].st = "done", !.task[i].out = "answered",
            !.task[i].resp = response,
            !.task[i].ret = IF AnswersYes(response) THEN <<s.task[i].comic>> ELSE <<>>]

RECURSIVE Flatten(_)
Flatten(ss) == IF ss = <<>> THEN <<>> ELSE Head(ss) \o Flatten(Tail(ss))

\* variant: the matches are collected from the last callback to the first
LastFirstAiMatches(task) ==
  Flatten([i \in 1..Len(task) |-> task[Len(task) + 1 - i].ret])

\* (await Promise.all(aiMatchPromises)).filter(c => c !== null)
AiMatches(task) == Flatten([i \in 1..Len(task) |-> task[i].ret])

InFlight == { i \in 1..Len(search.task) : search.task[i].st = "request" }

DbUnchanged ==
  UNCHANGED <<comics, pages, clock, tx, txq, apiCalls, reader, aiSearch>> /\ UNCHANGED uiVars

\* the call up to the first await of every callback
SearchStart ==
  /\ search.pc = "called"
  /\ search' =
       IF ~search.apiKey THEN [search EXCEPT !.pc = "rejected"]
       ELSE LET titleMatches == TitleMatches(search.comics, search.query)
                toSearch == ComicsToSearchAi(search.comics, titleMatches)
            IN [search EXCEPT !.pc = "running",
                              !.titleMatches = titleMatches,
                              !.task = [i \in 1..Len(toSearch) |-> StartedTask(toSearch[i])]]
  /\ DbUnchanged

\* blobToBase64 resolves and the callback calls generateContent
Base64Loaded ==
  /\ search.pc = "running"
  /\ \E i \in 1..Len(search.task) :
       /\ search.task[i].st = "b64"
       /\ search' = [search EXCEPT !.task[i].st = "request",
                                   !.issued[search.task[i].comic.id] = @ + 1]
  /\ DbUnchanged

\* blobToBase64 rejects (reader.onerror)
Base64Failed ==
  /\ search.pc = "running"
  /\ \E i \in 1..Len(search.task) :
       /\ search.task[i].st = "b64"
       /\ search' = OnRequestError(search, i)
  /\ DbUnchanged

\* a response arrives
ResponseArrives ==
  /\ search.pc = "running"
  /\ \E i \in InFlight, response \in Responses :
       search' = OnResponse(search, i, response)
  /\ DbUnchanged

\* generateContent throws
RequestFails ==
  /\ search.pc = "running"
  /\ \E i \in InFlight : search' = OnRequestError(search, i)
  /\ DbUnchanged

\* Promise.all resolves once every callback has returned
SearchFinish ==
  /\ search.pc = "running"
  /\ \A i \in 1..Len(search.task) : search.task[i].st = "done"
  /\ search' = [search EXCEPT !.pc = "resolved",
                              !.result = search.titleMatches \o AiMatches(search.task)]
  /\ DbUnchanged

SearchInit ==
  /\ \E cs \in SearchLibraries, query \in SearchQueries, apiKey \in BOOLEAN :
       search = [pc |-> "called", comics |-> cs, query |-> query, apiKey |-> apiKey,
                 titleMatches |-> <<>>, task |-> <<>>,
                 issued |-> [i \in 1..Len(cs) |-> 0], result |-> <<>>]
  /\ comics = <<>>
  /\ pages = <<>>
  /\ clock = 0
  /\ tx = IdleTx
  /\ txq = <<>>
  /\ view = "LIBRARY"
  /\ activeComic = <<>>
  /\ libComics = <<>>
  /\ loading = FALSE
  /\ viewPages = <<>>
  /\ currentPageIndex = 0
  /\ apiCalls = 0
  /\ reader = NoReader
  /\ aiSearch = NoAiSearch

SearchNext ==
  \/ SearchStart
  \/ Base64Loaded
  \/ Base64Failed
  \/ ResponseArrives
  \/ RequestFails
  \/ SearchFinish

SearchSpec == SearchInit /\ [][SearchNext]_vars

----------------------------------------------------------------------------
(* Properties of utils/db.ts and of the views                              *)

\* the keys of the pages of a comic in a page store
PagesOf(ps, comicId) == { k \in DOMAIN ps : ps[k].comicId = comicId }

Ids(s) == [i \in 1..Len(s) |-> s[i].id]

\* C1: when deleteComicPage(pageId, comicId) commits and pages of comicId
\* remain, their orders are exactly 0 .. n-1, each once, and read by order
\* they are the pages that were there before, without pageId, in the order
\* they had.
DeletePageRenumbers ==
  [][ (TxCommit /\ tx.call.op = "deleteComicPage"
         /\ PagesOf(pages', tx.call.comicId) # {}) =>
        LET before == LoadedPages(pages, tx.call.comicId)
            after == LoadedPages(pages', tx.call.comicId)
            Kept(p) == p.id # tx.call.pageId
        IN /\ Len(after) = Cardinality(PagesOf(pages', tx.call.comicId))
           /\ \A i \in 1..Len(after) : after[i].order = i - 1
           /\ Ids(after) = Ids(SelectSeq(before, Kept)) ]_vars

\* the first of three pages is being deleted: both others get a new order
DeletePageRenumbersWitness ==
  /\ tx.pc = "commit" /\ tx.call.op = "deleteComicPage"
  /\ tx.call.pageId \in PagesOf(pages, tx.call.comicId)
  /\ pages[tx.call.pageId].order = 0
  /\ Cardinality(PagesOf(tx.wp, tx.call.comicId)) >= 2
  /\ \A k \in PagesOf(tx.wp, tx.call.comicId) : tx.wp[k].order = pages[k].order - 1

\* C2: when deleteComicPage commits and no page of comicId remains, the
\* comic is gone with the same commit and getAllComics does not return it;
\* the Editor then asks for the remaining pages, and when it gets none the
\* view is the library.
LastPageDeletesComic ==
  [][ /\ (TxCommit /\ tx.call.op = "deleteComicPage"
            /\ PagesOf(tx.wp, tx.call.comicId) = {}) =>
           /\ tx.call.comicId \notin DOMAIN comics'
           /\ tx.call.comicId \notin Range(Ids(SortedComics(comics')))
      /\ (TxCommit /\ tx.call.op = "deleteComicPage" /\ tx.call.k = "edDeleted") =>
           /\ txq' # <<>>
           /\ txq'[Len(txq')] =
                Inherit(GetComicPagesCall(tx.call.comicId, "edAfterDelete"), tx.call)
      /\ (ReadStep /\ Head(txq).k = "edAfterDelete"
            /\ PagesOf(pages, Head(txq).comicId) = {}) =>
           /\ view' = "LIBRARY"
           /\ activeComic' = <<>> ]_vars

\* the Editor deleted the last page of its comic and is about to learn it
LastPageDeletesComicWitness ==
  /\ tx.pc = "idle" /\ txq # <<>>
  /\ Head(txq).k = "edAfterDelete" /\ Head(txq).alive
  /\ view = "EDIT"
  /\ activeComic[1].id = Head(txq).comicId
  /\ viewPages # <<>>
  /\ Head(txq).comicId \notin DOMAIN comics
  /\ PagesOf(pages, Head(txq).comicId) = {}

\* C3: when deleteComicPage commits and leaves n >= 1 pages of the comic,
\* lastReadPage is n-1 if it was >= n and is unchanged otherwise, and
\* 0 <= lastReadPage < totalPages.
LastReadPageClamped ==
  [][ (TxCommit /\ tx.call.op = "deleteComicPage"
         /\ PagesOf(pages', tx.call.comicId) # {}
         /\ tx.call.comicId \in DOMAIN comics) =>
        LET n == Cardinality(PagesOf(pages', tx.call.comicId))
            old == comics[tx.call.comicId].lastReadPage
        IN /\ tx.call.comicId \in DOMAIN comics'
           /\ comics'[tx.call.comicId].lastReadPage = (IF old >= n THEN n - 1 ELSE old)
           /\ 0 <= comics'[tx.call.comicId].lastReadPage
           /\ comics'[tx.call.comicId].lastReadPage < comics'[tx.call.comicId].totalPages ]_vars

\* the last page read is beyond the pages that remain
LastReadPageClampedWitness ==
  /\ tx.pc = "commit" /\ tx.call.op = "deleteComicPage"
  /\ tx.call.comicId \in DOMAIN comics
  /\ tx.call.pageId \in PagesOf(pages, tx.call.comicId)
  /\ Cardinality(PagesOf(tx.wp, tx.call.comicId)) = 2
  /\ comics[tx.call.comicId].lastReadPage = 2
  /\ tx.wc[tx.call.comicId].lastReadPage = 1

\* C4: when deleteComic(comicId) commits, the comic and every page of it
\* are gone, and every other comic and every page of another comic is as
\* it was.
DeleteComicCascades ==
  [][ (TxCommit /\ tx.call.op = "deleteComic") =>
        /\ tx.call.comicId \notin DOMAIN comics'
        /\ PagesOf(pages', tx.call.comicId) = {}
        /\ DOMAIN comics' = DOMAIN comics \ {tx.call.comicId}
        /\ \A k \in DOMAIN comics' : comics'[k] = comics[k]
        /\ DOMAIN pages' = DOMAIN pages \ PagesOf(pages, tx.call.comicId)
        /\ \A k \in DOMAIN pages' : pages'[k] = pages[k] ]_vars

\* a comic of three pages is being deleted next to another comic
DeleteComicCascadesWitness ==
  /\ tx.pc = "commit" /\ tx.call.op = "deleteComic"
  /\ tx.call.comicId \in DOMAIN comics
  /\ Cardinality(PagesOf(pages, tx.call.comicId)) = 3
  /\ PagesOf(tx.wp, tx.call.comicId) = {}
  /\ \E other \in DOMAIN tx.wc : PagesOf(tx.wp, other) # {}

\* the pages and the comic handed to a call of saveComic
GivenPages(call) ==
  UNION { Range(call.plan[i].putPages) : i \in 1..Len(call.plan) }
GivenComics(call) ==
  UNION { Range(call.plan[i].putComic) : i \in 1..Len(call.plan) }

\* C5: whatever a call of saveComic does, the stores (which is all a read
\* sees) hold afterwards either the comic and every page given, or neither
\* the comic nor any of the pages.
SaveComicAtomic ==
  [][ (tx.call.op = "saveComic") =>
        \/ /\ \A c \in GivenComics(tx.call) : c.id \in DOMAIN comics' /\ comics'[c.id] = c
           /\ \A p \in GivenPages(tx.call) : p.id \in DOMAIN pages' /\ pages'[p.id] = p
        \/ /\ \A c \in GivenComics(tx.call) : c.id \notin DOMAIN comics'
           /\ \A p \in GivenPages(tx.call) : p.id \notin DOMAIN pages' ]_vars

\* saveComic has put the comic and two pages and is about to commit, with
\* the getAllComics of the Library waiting behind it
SaveComicAtomicWitness ==
  /\ tx.pc = "commit" /\ tx.call.op = "saveComic"
  /\ Cardinality(GivenPages(tx.call)) = 2
  /\ tx.call.comicId \in DOMAIN tx.wc
  /\ tx.call.comicId \notin DOMAIN comics
  /\ PagesOf(pages, tx.call.comicId) = {}
  /\ \E i \in 1..Len(txq) : txq[i].op = "getAllComics"

----------------------------------------------------------------------------
(* Properties of searchComicCovers                                         *)

\* the comics of the library whose title contains the query, whatever the
\* case of either
TitleHits ==
  { i \in 1..Len(search.comics) :
      Includes(ToLowerCase(search.comics[i].title), ToLowerCase(search.query)) }

\* the comics a request can be issued for
AiCandidates ==
  { i \in 1..Len(search.comics) : i \notin TitleHits /\ search.comics[i].hasCover }

\* C6, as the claim states it: at most one request is in flight at any time
RequestsSequential == Cardinality(InFlight) <= 1

\* C6, as the code has it: the requests are issued side by side, so several
\* are in flight at once, but only for comics that have a cover and no title
\* match, and never more than one for each of them
RequestsSideBySide ==
  /\ Cardinality(InFlight) <= Cardinality(AiCandidates)
  /\ \A i \in InFlight :
       /\ search.task[i].comic.id \in { search.comics[j].id : j \in AiCandidates }
       /\ \A j \in InFlight : search.task[j].comic.id = search.task[i].comic.id => j = i

\* a request for every comic of the library is in flight
RequestsSideBySideWitness ==
  /\ search.pc = "running"
  /\ Len(search.comics) = MaxSearch
  /\ Cardinality(InFlight) = MaxSearch

\* C7: a comic whose title contains the query case-insensitively gets no
\* request, and is in the result when the search resolves, whatever the
\* requests for the other comics did.
TitleMatchIsPreFilter ==
  \A i \in TitleHits :
    /\ search.issued[search.comics[i].id] = 0
    /\ search.pc = "resolved" => search.comics[i] \in Range(search.result)

\* the title matches only when case is ignored, one other request failed and
\* one was answered with something else than YES
TitleMatchIsPreFilterWitness ==
  /\ search.pc = "resolved"
  /\ \E i \in TitleHits :
       /\ ~Includes(search.comics[i].title, search.query)
       /\ search.comics[i].hasCover
       /\ search.comics[i] \in Range(search.result)
  /\ \E j \in 1..Len(search.task) :
       search.task[j].out = "failed" /\ search.issued[search.task[j].comic.id] > 0
  /\ \E j \in 1..Len(search.task) :
       search.task[j].out = "answered" /\ ~AnswersYes(search.task[j].resp)

\* C8: with an API key the search is never rejected, whatever request
\* fails; when it resolves, a comic whose request failed is not in the
\* result, and every title match and every comic answered YES is.
FailedRequestTolerated ==
  /\ search.pc = "rejected" => ~search.apiKey
  /\ search.pc = "resolved" =>
       /\ \A j \in 1..Len(search.task) :
            /\ search.task[j].out = "failed" => search.task[j].comic \notin Range(search.result)
            /\ (search.task[j].out = "answered" /\ AnswersYes(search.task[j].resp)) =>
                 search.task[j].comic \in Range(search.result)
       /\ \A i \in TitleHits : search.comics[i] \in Range(search.result)

\* the search resolved with a title match and a YES although a request failed
FailedRequestToleratedWitness ==
  /\ search.pc = "resolved"
  /\ TitleHits # {}
  /\ \E j \in 1..Len(search.task) :
       search.task[j].out = "failed" /\ search.issued[search.task[j].comic.id] > 0
  /\ \E j \in 1..Len(search.task) :
       search.task[j].out = "answered" /\ AnswersYes(search.task[j].resp)

\* C9: at most one request is issued for a comic within one call, also
\* after that request failed.
NoRetry ==
  \A i \in 1..Len(search.comics) : search.issued[search.comics[i].id] <= 1

\* a request failed and the search went on to resolve without it
NoRetryWitness ==
  /\ search.pc = "resolved"
  /\ \E j \in 1..Len(search.task) :
       /\ search.task[j].out = "failed"
       /\ search.issued[search.task[j].comic.id] = 1

----------------------------------------------------------------------------

\* C10: in the stores, totalPages of every comic is the number of pages
\* stored with its id, whatever the views have done.
TotalPagesCounts ==
  \A c \in DOMAIN comics :
    comics[c].totalPages = Cardinality(PagesOf(pages, c))

\* a comic that was renamed, got a new cover and lost a page, next to
\* another comic
TotalPagesCountsWitness ==
  \E c \in DOMAIN comics :
    /\ comics[c].totalPages = 1
    /\ Cardinality(PagesOf(pages, c)) = 1
    /\ comics[c].title = <<"A">>
    /\ comics[c].coverImageBlob = CroppedBlob
    /\ DOMAIN comics # {c}

----------------------------------------------------------------------------
(* Further properties of utils/db.ts                                       *)

\* C11: when deleteComicPage(pageId, comicId) commits, every comic record
\* other than comicId and every page of a comic other than comicId is as it
\* was, whatever pageId and comicId are.
DeletePageFrame ==
  [][ (TxCommit /\ tx.call.op = "deleteComicPage") =>
        /\ \A c \in DOMAIN comics \ {tx.call.comicId} :
             c \in DOMAIN comics' /\ comics'[c] = comics[c]
        /\ \A k \in DOMAIN pages :
             pages[k].comicId # tx.call.comicId =>
               k \in DOMAIN pages' /\ pages'[k] = pages[k] ]_vars

\* C12: when the saveComic of an upload commits, exactly one comic is new,
\* with a non-blank title, totalPages = the number n >= 1 of files,
\* lastReadPage = 0 and the cover file chosen or else the first file as
\* cover, and exactly n pages are new, file i with order i-1; nothing else
\* changes. No saveComic is ever called with a blank title or without files.
UploadStores ==
  [][ /\ (TxCommit /\ tx.call.op = "saveComic") =>
           LET c == tx.call.comicId
               new == LoadedPages(pages', c)
               n == Cardinality(GivenPages(tx.call))
           IN /\ c \notin DOMAIN comics
              /\ DOMAIN comics' = DOMAIN comics \cup {c}
              /\ \A k \in DOMAIN comics : comics'[k] = comics[k]
              /\ n >= 1 /\ Len(new) = n
              /\ comics'[c].totalPages = n
              /\ comics'[c].lastReadPage = 0
              /\ Trim(comics'[c].title) # <<>>
              /\ comics'[c].coverImageBlob =
                   (IF tx.call.blob # NoBlob THEN tx.call.blob ELSE FileBlob(1))
              /\ \A i \in 1..n : new[i].order = i - 1 /\ new[i].blob = FileBlob(i)
              /\ DOMAIN pages' = DOMAIN pages \cup PagesOf(pages', c)
              /\ PagesOf(pages, c) = {}
              /\ \A k \in DOMAIN pages : pages'[k] = pages[k]
      /\ \A i \in 1..Len(txq') :
           txq'[i].op = "saveComic" =>
             /\ GivenPages(txq'[i]) # {}
             /\ \A g \in GivenComics(txq'[i]) : Trim(g.title) # <<>> ]_vars

\* a second comic of two files is about to be stored, without a cover file
\* and with page ids that sort against the file list
UploadStoresWitness ==
  /\ tx.pc = "commit" /\ tx.call.op = "saveComic"
  /\ view = "UPLOAD"
  /\ tx.call.blob = NoBlob
  /\ Cardinality(GivenPages(tx.call)) = 2
  /\ \E p \in GivenPages(tx.call) : p.order = 0 /\ p.id[2] = 2
  /\ DOMAIN comics # {}

\* C13: what getComicPages(comicId) hands to the Editor or the Reader is
\* every stored page of comicId, each once, as {id, blob, order}, sorted by
\* order, and the orders are 0 .. n-1.
GetComicPagesSorted ==
  [][ (ReadStep /\ Head(txq).op = "getComicPages" /\ Head(txq).alive) =>
        LET c == Head(txq).comicId
            r == viewPages'
        IN /\ Len(r) = Cardinality(PagesOf(pages, c))
           /\ Range(Ids(r)) = PagesOf(pages, c)
           /\ \A i \in 1..Len(r) :
                /\ r[i] = [id |-> r[i].id, blob |-> pages[r[i].id].blob,
                           order |-> pages[r[i].id].order]
                /\ r[i].order = i - 1 ]_vars

\* a view shows two pages whose ids sort against their order
GetComicPagesSortedWitness ==
  /\ view \in {"EDIT", "READER"} /\ ~loading
  /\ Len(viewPages) = 2
  /\ viewPages[1].id[2] = 2 /\ viewPages[1].order = 0
  /\ viewPages[2].id[2] = 1 /\ viewPages[2].order = 1

UpdateOps == {"updateComicProgress", "updateComicCover", "updateComicTitle"}

\* C14: an update of a comic that is not stored leaves the stores as they
\* are; updateComicProgress then resolves, updateComicCover and
\* updateComicTitle reject. No update adds or removes a record.
UpdatesNeverCreate ==
  [][ /\ (UpdateComicStep /\ tx.call.comicId \notin DOMAIN comics) =>
           /\ tx'.wc = comics
           /\ tx'.status =
                (IF tx.call.op = "updateComicProgress" THEN "ok" ELSE "err")
      /\ (TxCommit /\ tx.call.op \in UpdateOps) =>
           /\ DOMAIN comics' = DOMAIN comics
           /\ pages' = pages
           /\ tx.call.comicId \notin DOMAIN comics => comics' = comics ]_vars

\* the progress of a comic that was deleted has been "saved": the promise
\* resolved and the transaction is about to commit nothing
UpdatesNeverCreateWitness ==
  /\ tx.pc = "commit" /\ tx.call.op = "updateComicProgress"
  /\ tx.status = "ok"
  /\ tx.call.comicId \notin DOMAIN comics
  /\ tx.call.comicId <= clock
  /\ DOMAIN comics # {}

----------------------------------------------------------------------------
(* The Reader *)

\* the Reader shows its pages: openAiChat and handleSendMessage go past
\* their `pages.length === 0` guard and read pages[currentPageIndex]
ReadsCurrentPage == view = "READER" /\ ~loading /\ viewPages # <<>>

\* C16: whenever the Reader can read pages[currentPageIndex] for an
\* analysis, 0 <= currentPageIndex < pages.length, whatever uploads, page
\* deletions and reading sessions came before.
PageIndexInRange ==
  ReadsCurrentPage => currentPageIndex \in 0..(Len(viewPages) - 1)

\* the Reader shows the one page left of a comic of two files whose first
\* page was deleted in the Editor
PageIndexInRangeWitness ==
  /\ ReadsCurrentPage
  /\ Len(viewPages) = 1
  /\ viewPages[1].blob = FileBlob(2)
  /\ currentPageIndex = 0

----------------------------------------------------------------------------
(* One reading session: the Reader is mounted on a comic of a well-formed  *)
(* library, the user scrolls, talks to the AI and closes the Reader, while *)
(* the database works through the progress writes.                         *)

\* an analysis request: kind is "initial" (openAiChat) or "followUp"
\* (handleSendMessage), page the index of the page whose blob was sent
Request(kind, page) == [kind |-> kind, page |-> page]

\* a chat message; page is the index of the page it was written for,
\* error tells the text of a catch block from an analysis
Message(role, page, error) == [role |-> role, page |-> page, error |-> error]

RemoveAt(q, i) == [j \in 1..(Len(q) - 1) |-> IF j < i THEN q[j] ELSE q[j + 1]]

FollowUps(q) == Cardinality({ i \in 1..Len(q) : q[i].kind = "followUp" })

\* the database calls that wait or run
Unfinished == Len(txq) + (IF tx.pc = "idle" THEN 0 ELSE 1)

\* the effects of a page change on the chat: setChatHistory([]);
\* setShowAiModal(false)
ResetChat(r) == [r EXCEPT !.chatHistory = <<>>, !.showAiModal = FALSE]

\* the IntersectionObserver reports another page (the modal, when shown,
\* covers the pages): the progress is saved with the index that was
\* current, and the chat is reset
PageIntersects ==
  /\ view = "READER" /\ ~loading /\ viewPages # <<>>
  /\ ~reader.showAiModal
  /\ Unfinished < MaxQueue
  /\ \E index \in 0..(Len(viewPages) - 1) :
       /\ index # currentPageIndex
       /\ LET w == World(Append(txq, SaveProgressCall(activeComic[1].id, currentPageIndex)))
          IN Apply([w EXCEPT !.currentPageIndex = index], tx)
  /\ reader' = ResetChat(reader)
  /\ UNCHANGED <<comics, pages, clock, apiCalls, search, aiSearch>>

\* the close button: App.handleCloseView unmounts the Reader, whose cleanup
\* saves the progress; what its pending analyses set afterwards is ignored
CloseReader ==
  /\ view = "READER" /\ ~loading
  /\ ~reader.showAiModal
  /\ Apply(HandleCloseView(World(txq)), tx)
  /\ reader' = [NoReader EXCEPT !.closedAt = <<activeComic[1].id, currentPageIndex,
                                               Unfinished>>,
                                !.writeFailed = reader.writeFailed]
  /\ UNCHANGED <<comics, pages, clock, apiCalls, search, aiSearch>>

\* Reader.openAiChat, up to its await; the button is rendered when
\* !showAiModal && pages.length > 0
OpenAiChat ==
  /\ ReadsCurrentPage
  /\ ~reader.showAiModal
  /\ IF reader.chatHistory = <<>>
     THEN /\ Len(reader.requests) < MaxRequests
          /\ reader' = [reader EXCEPT !.showAiModal = TRUE,
                                      !.isAiAnalyzing = TRUE,
                                      !.requests = Append(@, Request("initial", currentPageIndex))]
     ELSE reader' = [reader EXCEPT !.showAiModal = TRUE]
  /\ UNCHANGED <<comics, pages, clock, tx, txq, apiCalls, search, aiSearch>>
  /\ UNCHANGED uiVars

\* the X button of the modal, or a click on its backdrop
CloseAiModal ==
  /\ view = "READER"
  /\ reader.showAiModal
  /\ reader' = [reader EXCEPT !.showAiModal = FALSE]
  /\ UNCHANGED <<comics, pages, clock, tx, txq, apiCalls, search, aiSearch>>
  /\ UNCHANGED uiVars

\* Reader.handleSendMessage, up to its await (the form is in the modal)
HandleSendMessage ==
  /\ view = "READER"
  /\ reader.showAiModal
  /\ \E userMessage \in Titles :
       ~(Trim(userMessage) = <<>> \/ reader.isAiAnalyzing \/ viewPages = <<>>)
  /\ Len(reader.requests) < MaxRequests
  /\ Len(reader.chatHistory) + FollowUps(reader.requests) + 2 <= MaxChat
  /\ reader' = [reader EXCEPT
       !.chatHistory = Append(@, Message("user", currentPageIndex, FALSE)),
       !.isAiAnalyzing = TRUE,
       !.requests = Append(@, Request("followUp", currentPageIndex))]
  /\ UNCHANGED <<comics, pages, clock, tx, txq, apiCalls, search, aiSearch>>
  /\ UNCHANGED uiVars

\* the handler that awaits request r resumes, in its try or catch block and
\* then its finally block
AfterAnalysis(r, req, error) ==
  LET m == Message("model", req.page, error)
  IN [r EXCEPT !.chatHistory = IF req.kind = "initial" THEN <<m>> ELSE Append(@, m),
               !.isAiAnalyzing = FALSE]

\* getAiPageAnalysis resolves with the text of the response
AnalysisResolves ==
  /\ view = "READER"
  /\ \E i \in 1..Len(reader.requests) :
       reader' = [AfterAnalysis(reader, reader.requests[i], FALSE)
                    EXCEPT !.requests = RemoveAt(@, i)]
  /\ UNCHANGED <<comics, pages, clock, tx, txq, apiCalls, search, aiSearch>>
  /\ UNCHANGED uiVars

\* getAiPageAnalysis throws (no API key, or the request failed)
AnalysisRejects ==
  /\ view = "READER"
  /\ \E i \in 1..Len(reader.requests) :
       reader' = [AfterAnalysis(reader, reader.requests[i], TRUE)
                    EXCEPT !.requests = RemoveAt(@, i)]
  /\ UNCHANGED <<comics, pages, clock, tx, txq, apiCalls, search, aiSearch>>
  /\ UNCHANGED uiVars

\* the transaction of a progress write aborts: nothing of it is stored
ProgressWriteFails ==
  /\ tx.pc # "idle"
  /\ IF tx.settled
     THEN Apply(World(txq), IdleTx)
     ELSE Apply(AfterCall(World(txq), tx.call, "err", <<>>, <<>>), IdleTx)
  /\ reader' = [reader EXCEPT !.writeFailed = TRUE]
  /\ UNCHANGED <<comics, pages, clock, apiCalls, search, aiSearch>>

\* Library.onOpen of comic 1 of a library: App.handleOpenReader mounts the
\* Reader
ReaderInit ==
  /\ \E lib \in Libraries(1) :
       LET w == Mount([view |-> "LIBRARY", activeComic |-> <<>>,
                       libComics |-> SortedComics(lib.comics), loading |-> FALSE,
                       viewPages |-> <<>>, currentPageIndex |-> 0,
                       q |-> <<>>, kill |-> FALSE],
                      "READER", <<lib.comics[1]>>)
       IN /\ comics = lib.comics
          /\ pages = lib.pages
          /\ view = w.view
          /\ activeComic = w.activeComic
          /\ libComics = w.libComics
          /\ loading = w.loading
          /\ viewPages = w.viewPages
          /\ currentPageIndex = w.currentPageIndex
          /\ txq = w.q
  /\ clock = 1
  /\ tx = IdleTx
  /\ apiCalls = 0
  /\ search = NoSearch
  /\ reader = NoReader
  /\ aiSearch = NoAiSearch

ReaderNext ==
  \/ PageIntersects
  \/ CloseReader
  \/ OpenAiChat
  \/ CloseAiModal
  \/ HandleSendMessage
  \/ AnalysisResolves
  \/ AnalysisRejects
  \/ ProgressWriteFails
  \/ TxBegin
  \/ UpdateComicStep
  \/ TxCommit
  \/ ReadStep

ReaderSpec == ReaderInit /\ [][ReaderNext]_vars

\* no progress write waits or runs
WritesFinished ==
  /\ tx.pc = "idle"
  /\ \A i \in 1..Len(txq) : txq[i].op \notin WriteOps

\* C15: once the Reader was closed and every pending write has finished
\* (none of them failed), the stored lastReadPage of the comic is the page
\* index that was current at the close, whatever progress writes the page
\* changes before issued.
ProgressSavedAtClose ==
  ( /\ reader.closedAt # <<>>
    /\ WritesFinished
    /\ ~reader.writeFailed
    /\ reader.closedAt[1] \in DOMAIN comics )
  => comics[reader.closedAt[1]].lastReadPage = reader.closedAt[2]

\* the Reader was closed on its last page of three while the progress
\* writes of two page changes were still waiting, and all have finished
ProgressSavedAtCloseWitness ==
  /\ reader.closedAt # <<>>
  /\ reader.closedAt[2] = 2
  /\ reader.closedAt[3] >= 2
  /\ WritesFinished
  /\ ~reader.writeFailed
  /\ comics[reader.closedAt[1]].lastReadPage = 2

\* C17: every message of the chat history of the Reader was written for
\* the page that is current, also when the response to a request of an
\* earlier page arrives after the page changed.
ChatIsOfCurrentPage ==
  view = "READER" =>
    \A i \in 1..Len(reader.chatHistory) :
      reader.chatHistory[i].page = currentPageIndex

\* C18: at most one analysis request of the Reader waits for its response.
OneAnalysisInFlight == Len(reader.requests) <= 1

----------------------------------------------------------------------------
(* The result of searchComicCovers *)

\* the comics the AI answered YES for
AiHits ==
  { search.task[i].comic.id :
      i \in { j \in 1..Len(search.task) :
                search.task[j].out = "answered" /\ AnswersYes(search.task[j].resp) } }

\* C19: searchComicCovers resolves with the title matches in input order
\* followed by the AI matches in input order; every comic returned is one
\* of the input, none is returned twice, and a comic without a cover is
\* returned only for its title.
ResultOrdered ==
  search.pc = "resolved" =>
    LET r == search.result
        k == Cardinality(TitleHits)
    IN /\ Len(r) = k + Cardinality(AiHits)
       /\ \A i \in 1..Len(r) :
            /\ r[i].id \in 1..Len(search.comics)
            /\ r[i] = search.comics[r[i].id]
            /\ i <= k => r[i].id \in TitleHits
            /\ i > k => r[i].id \in AiHits \ TitleHits /\ r[i].hasCover
       /\ \A i, j \in 1..Len(r) :
            /\ i # j => r[i].id # r[j].id
            /\ (i < j /\ (j <= k \/ i > k)) => r[i].id < r[j].id

\* the second of three comics matched by its title, the first and the
\* third by their covers
ResultOrderedWitness ==
  /\ search.pc = "resolved"
  /\ Len(search.result) = 3
  /\ search.result[1].id = 2
  /\ search.result[2].id = 1
  /\ search.result[3].id = 3

----------------------------------------------------------------------------
(* The AI search of the Library: the search field, its button and the      *)
(* calls of handleAiSearch, on a library that is loaded.                   *)

\* what the user types into the search field
FieldQueries == { Blank } \cup SearchQueries

\* a call of handleAiSearch at one of its two awaits
AiSearchCall(pc, query, fullLibrary) ==
  [pc |-> pc, query |-> query, fullLibrary |-> fullLibrary]

\* Library.handleAiSearch up to its first await
HandleAiSearch(s) ==
  IF Trim(s.searchQuery) = <<>> THEN s
  ELSE [s EXCEPT !.isSearching = TRUE,
                 !.calls = Append(@, AiSearchCall("getAllComics", s.searchQuery, <<>>))]

\* the comics of cs whose ids are in ids, in the order of cs
Picked(cs, ids) ==
  LET Keep(comic) == comic.id \in ids
  IN SelectSeq(cs, Keep)

\* what searchComicCovers can resolve with: the title matches, then those
\* of the other comics the AI answered YES for
SearchResults(cs, query) ==
  LET titleMatches == TitleMatches(cs, query)
      rest == ComicsToSearchAi(cs, titleMatches)
  IN { titleMatches \o Picked(rest, ids) :
         ids \in SUBSET { rest[i].id : i \in 1..Len(rest) } }

\* the input's onChange
SetSearchQuery ==
  /\ view = "LIBRARY" /\ ~loading
  /\ \E q \in FieldQueries :
       /\ q # aiSearch.searchQuery
       /\ aiSearch' = [aiSearch EXCEPT !.searchQuery = q]
  /\ UNCHANGED <<comics, pages, clock, tx, txq, apiCalls, search, reader>>
  /\ UNCHANGED uiVars

\* the search button: disabled={isSearching}
ClickAiSearch ==
  /\ view = "LIBRARY" /\ ~loading
  /\ ~aiSearch.isSearching
  /\ Trim(aiSearch.searchQuery) # <<>>
  /\ Len(aiSearch.calls) < MaxAiSearches
  /\ aiSearch' = HandleAiSearch(aiSearch)
  /\ UNCHANGED <<comics, pages, clock, tx, txq, apiCalls, search, reader>>
  /\ UNCHANGED uiVars

\* the input's onKeyDown: e.key === 'Enter' && handleAiSearch()
PressEnter ==
  /\ view = "LIBRARY" /\ ~loading
  /\ Trim(aiSearch.searchQuery) # <<>>
  /\ Len(aiSearch.calls) < MaxAiSearches
  /\ aiSearch' = HandleAiSearch(aiSearch)
  /\ UNCHANGED <<comics, pages, clock, tx, txq, apiCalls, search, reader>>
  /\ UNCHANGED uiVars

\* Library.clearSearch
ClearSearch ==
  /\ view = "LIBRARY" /\ ~loading
  /\ aiSearch.searchQuery # <<>>
  /\ Len(txq) < MaxQueue
  /\ aiSearch' = [aiSearch EXCEPT !.searchQuery = <<>>]
  /\ Apply(LoadComics(World(txq), GetAllComicsCall), tx)
  /\ UNCHANGED <<comics, pages, clock, apiCalls, search, reader>>

\* `await getAllComics()` of a call resumes with the full library
FullLibraryLoaded ==
  /\ \E i \in 1..Len(aiSearch.calls) :
       /\ aiSearch.calls[i].pc = "getAllComics"
       /\ aiSearch' = [aiSearch EXCEPT
            !.calls[i] = AiSearchCall("searchComicCovers", @.query, SortedComics(comics))]
  /\ UNCHANGED <<comics, pages, clock, tx, txq, apiCalls, search, reader>>
  /\ UNCHANGED uiVars

\* `await searchComicCovers(fullLibrary, searchQuery)` of a call resumes:
\* setComics(results), then the finally block
AiSearchResolves ==
  /\ \E i \in 1..Len(aiSearch.calls) :
       /\ aiSearch.calls[i].pc = "searchComicCovers"
       /\ \E results \in SearchResults(aiSearch.calls[i].fullLibrary, aiSearch.calls[i].query) :
            libComics' = results
       /\ aiSearch' = [aiSearch EXCEPT !.isSearching = FALSE, !.calls = RemoveAt(@, i)]
  /\ UNCHANGED <<view, activeComic, loading, viewPages, currentPageIndex>>
  /\ UNCHANGED <<comics, pages, clock, tx, txq, apiCalls, search, reader>>

\* one of the two awaits of a call throws: the catch and the finally block
AiSearchRejects ==
  /\ \E i \in 1..Len(aiSearch.calls) :
       aiSearch' = [aiSearch EXCEPT !.isSearching = FALSE, !.calls = RemoveAt(@, i)]
  /\ UNCHANGED <<comics, pages, clock, tx, txq, apiCalls, search, reader>>
  /\ UNCHANGED uiVars

\* the Library shows a library it has loaded
LibraryInit ==
  /\ \E k \in 0..MaxUploads : \E lib \in Libraries(k) :
       /\ comics = lib.comics
       /\ pages = lib.pages
       /\ clock = k
       /\ libComics = SortedComics(lib.comics)
  /\ tx = IdleTx
  /\ txq = <<>>
  /\ view = "LIBRARY"
  /\ activeComic = <<>>
  /\ loading = FALSE
  /\ viewPages = <<>>
  /\ currentPageIndex = 0
  /\ apiCalls = 0
  /\ search = NoSearch
  /\ reader = NoReader
  /\ aiSearch = NoAiSearch

LibraryNext ==
  \/ SetSearchQuery
  \/ ClickAiSearch
  \/ PressEnter
  \/ ClearSearch
  \/ FullLibraryLoaded
  \/ AiSearchResolves
  \/ AiSearchRejects
  \/ ReadStep

LibrarySpec == LibraryInit /\ [][LibraryNext]_vars

\* C20: at most one call of Library.handleAiSearch has not returned.
OneAiSearchInFlight == Len(aiSearch.calls) <= 1

====
